---- MODULE Spec2Model ----
(***************************************************************************)
(* The property Inspector of                                               *)
(* src/src/app/pages/chains/components/detail/data.inspector.ts as a state *)
(* machine: the inspected object, the generated input rows, the diagram    *)
(* model's data records, and the handlers the diagram and the DOM call.    *)
(*                                                                         *)
(* JavaScript values are records [t |-> runtime type, v |-> payload].      *)
(* Text is a sequence of one-character strings, so that split, parseFloat  *)
(* and toString are computed character by character.                       *)
(***************************************************************************)
EXTENDS Integers, Sequences, FiniteSets, TLC

\* ------------------------------------------------------------------ bounds
\* Largest magnitude of the integers the typed input values are drawn from.
MaxNum == 2
\* Longest array of numbers drawn as an input of the conversions.
MaxArrayLen == 2

\* ------------------------------------------------------------ text literals
T_empty == <<>>
T_false == <<"f", "a", "l", "s", "e">>
T_true == <<"t", "r", "u", "e">>
T_0 == <<"0">>
T_undefined == <<"u", "n", "d", "e", "f", "i", "n", "e", "d">>
T_null == <<"n", "u", "l", "l">>
T_NaN == <<"N", "a", "N">>
T_function == <<"f", "n", "(", ")", "{", "}">>
T_object == <<"[", "o", "b", "j", "e", "c", "t", "]">>
T_black == <<"#", "0", "0", "0", "0", "0", "0">>
T_redHex == <<"#", "f", "f", "0", "0", "0", "0">>
T_red == <<"r", "e", "d">>
T_redRgb == <<"r", "g", "b", "(", "2", "5", "5", ",", "0", ",", "0", ")">>
T_blueHex == <<"#", "0", "0", "0", "0", "f", "f">>
T_blue == <<"b", "l", "u", "e">>

\* ---------------------------------------------------------------- JS values
Undefined == [t |-> "undefined", v |-> <<>>]
Null == [t |-> "null", v |-> <<>>]
Str(s) == [t |-> "string", v |-> s]
Bool(b) == [t |-> "boolean", v |-> <<b>>]
\* A finite number is the decimal m / 10^d, kept normalised (d = 0 or m not a
\* multiple of 10); NaN is the one number with d = -1.
Num(m, d) == [t |-> "number", v |-> <<m, d>>]
IntNum(n) == Num(n, 0)
NaN == [t |-> "number", v |-> <<0, -1>>]
Func == [t |-> "function", v |-> <<>>]
Obj == [t |-> "object", v |-> <<>>]
Arr(s) == [t |-> "array", v |-> s]
List(s) == [t |-> "list", v |-> s]
\* go.Point, go.Size, go.Rect, go.Spot, go.Margin: the class and its numbers.
GoKinds == {"point", "size", "rect", "spot", "margin"}
Go(kind, nums) == [t |-> kind, v |-> nums]
GoArity(kind) == IF kind \in {"point", "size"} THEN 2 ELSE 4

\* The `typeof` operator.
TypeOf(x) ==
  CASE x.t \in {"undefined", "string", "boolean", "number", "function"} -> x.t
    [] OTHER -> "object"

\* JavaScript truthiness, as `a || b` and `if (a)` test it.
Truthy(x) ==
  CASE x.t \in {"undefined", "null"} -> FALSE
    [] x.t = "string" -> x.v # <<>>
    [] x.t = "boolean" -> x.v[1]
    [] x.t = "number" -> ~(x.v[2] = -1 \/ x.v[1] = 0)
    [] OTHER -> TRUE

\* ----------------------------------------------------------- number <-> text
Digits == <<"0", "1", "2", "3", "4", "5", "6", "7", "8", "9">>
IsDigit(c) == \E i \in 1..10 : Digits[i] = c
DigitVal(c) == (CHOOSE i \in 1..10 : Digits[i] = c) - 1

RECURSIVE NatToText(_)
NatToText(n) ==
  IF n < 10 THEN <<Digits[n + 1]>>
  ELSE NatToText(n \div 10) \o <<Digits[(n % 10) + 1]>>

RECURSIVE PadZeros(_, _)
PadZeros(s, len) == IF Len(s) >= len THEN s ELSE PadZeros(<<"0">> \o s, len)

\* Number.prototype.toString for a decimal of few digits.
NumberToString(x) ==
  LET m == x.v[1]
      d == x.v[2]
      a == IF m < 0 THEN -m ELSE m
      sign == IF m < 0 THEN <<"-">> ELSE <<>>
  IN IF d = -1 THEN T_NaN
     ELSE IF d = 0 THEN sign \o NatToText(a)
     ELSE LET ds == PadZeros(NatToText(a), d + 1)
              n == Len(ds)
          IN sign \o SubSeq(ds, 1, n - d) \o <<".">> \o SubSeq(ds, n - d + 1, n)

RECURSIVE Normalise(_, _)
Normalise(m, d) ==
  IF d > 0 /\ m % 10 = 0 THEN Normalise(m \div 10, d - 1) ELSE Num(m, d)

RECURSIVE SkipSpaces(_)
SkipSpaces(s) == IF s # <<>> /\ Head(s) = " " THEN SkipSpaces(Tail(s)) ELSE s

\* The longest prefix of digits of s.
RECURSIVE DigitPrefix(_)
DigitPrefix(s) ==
  IF s # <<>> /\ IsDigit(Head(s)) THEN <<Head(s)>> \o DigitPrefix(Tail(s)) ELSE <<>>

RECURSIVE DigitsToNat(_, _)
DigitsToNat(s, acc) ==
  IF s = <<>> THEN acc ELSE DigitsToNat(Tail(s), 10 * acc + DigitVal(Head(s)))

\* The global parseFloat on text: leading blanks, a sign, digits, a fraction;
\* NaN when no digit is found. (Exponents and "Infinity" are not in the
\* alphabet of the texts of this model.)
ParseFloat(text) ==
  LET s0 == SkipSpaces(text)
      neg == s0 # <<>> /\ Head(s0) = "-"
      s1 == IF s0 # <<>> /\ Head(s0) \in {"-", "+"} THEN Tail(s0) ELSE s0
      ip == DigitPrefix(s1)
      r1 == SubSeq(s1, Len(ip) + 1, Len(s1))
      fp == IF r1 # <<>> /\ Head(r1) = "." THEN DigitPrefix(Tail(r1)) ELSE <<>>
      mag == DigitsToNat(ip \o fp, 0)
  IN IF ip = <<>> /\ fp = <<>> THEN NaN
     ELSE Normalise(IF neg THEN -mag ELSE mag, Len(fp))

\* String.prototype.split(' '): the fields between single blanks.
RECURSIVE SplitOnSpace(_, _)
SplitOnSpace(s, cur) ==
  IF s = <<>> THEN <<cur>>
  ELSE IF Head(s) = " " THEN <<cur>> \o SplitOnSpace(Tail(s), <<>>)
  ELSE SplitOnSpace(Tail(s), Append(cur, Head(s)))

\* The fields of a split that are not empty (`if (!str) continue`).
RECURSIVE NonEmpty(_)
NonEmpty(fs) ==
  IF fs = <<>> THEN <<>>
  ELSE IF Head(fs) = <<>> THEN NonEmpty(Tail(fs))
  ELSE <<Head(fs)>> \o NonEmpty(Tail(fs))

\* Texts joined with single blanks.
RECURSIVE JoinWithSpace(_)
JoinWithSpace(ts) ==
  IF ts = <<>> THEN <<>>
  ELSE IF Len(ts) = 1 THEN ts[1]
  ELSE ts[1] \o <<" ">> \o JoinWithSpace(Tail(ts))

\* -------------------------------------------- the library's text conversions
\* go.Point.stringify and its siblings: the object's numbers, blank-separated.
GoStringify(x) == JoinWithSpace([i \in DOMAIN x.v |-> NumberToString(x.v[i])])

\* go.Point.parse and its siblings: the blank-separated numbers of the text,
\* 0 for each one that is missing.
GoParse(kind, text) ==
  LET fs == NonEmpty(SplitOnSpace(text, <<>>))
  IN Go(kind, [i \in 1..GoArity(kind) |->
                 IF i <= Len(fs) THEN ParseFloat(fs[i]) ELSE IntNum(0)])

\* --------------------------------------------------- Inspector conversions
\* What a 2d canvas context reports as fillStyle after being assigned the
\* value: the hex form of a colour it knows, and its default, black, when the
\* assignment is ignored (not a colour).
CssColors ==
  (T_red :> T_redHex) @@ (T_redHex :> T_redHex) @@ (T_redRgb :> T_redHex)
  @@ (T_blue :> T_blueHex) @@ (T_blueHex :> T_blueHex) @@ (T_black :> T_black)

convertToColor(propertyValue) ==
  IF propertyValue.t = "string" /\ propertyValue.v \in DOMAIN CssColors
  THEN CssColors[propertyValue.v]
  ELSE T_black

\* The array branch of convertToString with the separator left out.
RECURSIVE convertToStringNoSeparator(_)
convertToStringNoSeparator(x) ==
  CASE x.t = "undefined" -> T_undefined
    [] x.t = "null" -> T_null
    [] x.t \in GoKinds -> GoStringify(x)
    [] x.t = "list" -> convertToStringNoSeparator(Arr(x.v))
    [] x.t = "array" ->
         IF x.v = <<>> THEN <<>>
         ELSE convertToStringNoSeparator(x.v[1])
              \o convertToStringNoSeparator(Arr(Tail(x.v)))
    [] x.t = "string" -> x.v
    [] x.t = "number" -> NumberToString(x)
    [] x.t = "boolean" -> IF x.v[1] THEN T_true ELSE T_false
    [] x.t = "function" -> T_function
    [] OTHER -> T_object

RECURSIVE convertToString(_)
convertToString(x) ==
  CASE x.t = "undefined" -> T_undefined
    [] x.t = "null" -> T_null
    [] x.t \in GoKinds -> GoStringify(x)
    [] x.t = "list" -> convertToString(Arr(x.v))
    [] x.t = "array" ->
         JoinWithSpace([i \in DOMAIN x.v |-> convertToString(x.v[i])])
    [] x.t = "string" -> x.v
    [] x.t = "number" -> NumberToString(x)
    [] x.t = "boolean" -> IF x.v[1] THEN T_true ELSE T_false
    [] x.t = "function" -> T_function
    [] OTHER -> T_object

convertToArrayOfNumber(propertyValue) ==
  IF propertyValue = T_null THEN Null
  ELSE LET fs == NonEmpty(SplitOnSpace(propertyValue, <<>>))
       IN Arr([i \in DOMAIN fs |-> ParseFloat(fs[i])])

\* The boolean case without its test for "0".
ParseBooleanNoZero(value) ==
  Bool(~(value = Bool(FALSE) \/ value = Str(T_false)))

\* case 'boolean' of the commit's switch.
ParseBoolean(value) ==
  Bool(~(value = Bool(FALSE) \/ value = Str(T_false) \/ value = Str(T_0)))

\* The commit's switch on the type tag, applied to an input's value.
ConvertForCommit(type, value) ==
  CASE type = "boolean" -> ParseBoolean(value)
    [] type = "number" -> ParseFloat(value.v)
    [] type = "arrayofnumber" -> convertToArrayOfNumber(value.v)
    [] type \in GoKinds -> GoParse(type, value.v)
    [] OTHER -> value

\* The type the commit infers from the stored value of an untyped property.
InferType(oldval) ==
  CASE oldval.t \in {"boolean", "number"} -> oldval.t
    [] oldval.t \in GoKinds -> oldval.t
    [] OTHER -> ""

\* What an input element holds after `input.value = x`: the text of x.
RECURSIVE JoinWithComma(_)
JoinWithComma(ts) ==
  IF ts = <<>> THEN <<>>
  ELSE IF Len(ts) = 1 THEN ts[1]
  ELSE ts[1] \o <<",">> \o JoinWithComma(Tail(ts))

InputValueOf(x) ==
  CASE x.t = "null" -> T_empty
    [] x.t = "array" -> JoinWithComma([i \in DOMAIN x.v |-> convertToString(x.v[i])])
    [] OTHER -> convertToString(x)

\* ------------------------------------------------------------- the universe
\* The property names that occur on data records and in descriptors.
PropNames == {"key", "flag", "count", "fill", "cb", "note", "__gohashid"}

\* The objects an application hands to the Inspector: three diagram Parts
\* (the Group p0 is bound to no data) and the plain record md (such as
\* Model.modelData).
Objects == {"n1", "l1", "p0", "md"}
NullObj == "null"
NoArg == "undefined"
ObjClass == [o \in Objects |->
  CASE o = "n1" -> "Node" [] o = "l1" -> "Link" [] o = "p0" -> "Group"
    [] OTHER -> "Object"]
\* `x instanceof go.Node`, `go.Link`, `go.Group` (a Group is a Node).
IsNode(o) == o \in Objects /\ ObjClass[o] \in {"Node", "Group"}
IsLink(o) == o \in Objects /\ ObjClass[o] = "Link"
IsGroup(o) == o \in Objects /\ ObjClass[o] = "Group"

\* The Parts the user selects, and the objects the application passes to
\* inspectObject.
Selectable == {"n1", "l1", "p0"}
InspectedByCall == {"n1", "md", "p0"}

\* A data record: its keys in enumeration order and their values; a name
\* that is no key reads as undefined. NoData is a Part's missing data (null).
NoFields == [n \in PropNames |-> Undefined]
NoData == [present |-> FALSE, keys |-> <<>>, val |-> NoFields]
Record(keys, val) == [present |-> TRUE, keys |-> keys, val |-> val @@ NoFields]
InitialData == [o \in Objects |->
  CASE o = "n1" -> Record(<<"key", "flag", "cb", "__gohashid">>,
                          ("key" :> Str(<<"a">>)) @@ ("flag" :> Bool(TRUE))
                          @@ ("cb" :> Func) @@ ("__gohashid" :> IntNum(1)))
    [] o = "l1" -> Record(<<"fill", "__gohashid">>,
                          ("fill" :> Str(T_red)) @@ ("__gohashid" :> IntNum(2)))
    [] o = "p0" -> NoData
    [] OTHER -> Record(<<"flag">>, ("flag" :> Bool(FALSE)))]

\* Model.setDataProperty(data, name, value) on one record.
SetField(d, name, value) ==
  [d EXCEPT !.val[name] = value,
            !.keys = IF \E i \in DOMAIN d.keys : d.keys[i] = name
                     THEN d.keys ELSE Append(d.keys, name)]

\* A property descriptor of the `properties` option; "unset" marks an option
\* that is not given, and a show or readOnly of "if..." is a predicate.
Desc(name, show, readOnly, type, defaultValue) ==
  [declared |-> TRUE, name |-> name, show |-> show, readOnly |-> readOnly,
   type |-> type, defaultValue |-> defaultValue]
NoDesc == [declared |-> FALSE, name |-> "", show |-> "unset", readOnly |-> "unset",
           type |-> "unset", defaultValue |-> Undefined]
Predicates == {"ifNode", "ifLink", "ifGroup", "ifPresent"}

\* The `properties` options the Inspector is constructed with in this model:
\* none, the options of the class comment's example extended with typed
\* properties, and options with a hidden property and read-only predicates.
NoneDeclared == <<>>
ExampleDeclared ==
  << Desc("key", "ifPresent", "true", "unset", Undefined),
     Desc("note", "ifNode", "unset", "string", Str(<<"d">>)),
     Desc("flag", "unset", "unset", "boolean", Undefined),
     Desc("fill", "true", "unset", "color", Undefined) >>
HidingDeclared ==
  << Desc("flag", "false", "unset", "unset", Undefined),
     Desc("count", "unset", "ifLink", "number", IntNum(1)),
     Desc("key", "unset", "ifPresent", "unset", Undefined),
     Desc("fill", "ifLink", "false", "color", Str(T_blue)) >>

\* The options the Inspector is constructed with: <<properties,
\* includesOwnProperties, inspectSelection, a propertyModified callback>>.
OptionChoices == {
  <<NoneDeclared, TRUE, TRUE, FALSE>>, <<NoneDeclared, TRUE, FALSE, TRUE>>,
  <<ExampleDeclared, TRUE, TRUE, TRUE>>, <<ExampleDeclared, FALSE, FALSE, TRUE>>,
  <<HidingDeclared, TRUE, FALSE, FALSE>>, <<HidingDeclared, FALSE, TRUE, TRUE>> }

\* What the user types into a text input, and picks in a colour input.
TypedTexts == {T_false, T_0}
PickedColours == {T_blueHex}
\* The writes other code makes to the model inside a transaction of its own.
ExternalWrites == { <<"n1", "note", Str(<<"x">>)>> }

VARIABLES
  declaredProperties,     \* the `properties` option, in enumeration order
  includesOwnProperties,  \* option
  inspectsSelection,      \* option
  propertyModified,       \* TRUE when a callback is configured, FALSE for null
  isReadOnly,             \* diagram.model.isReadOnly
  selection,              \* diagram.selection.first(): a Part or NullObj
  data,                   \* each object's data record
  inspectedObject,        \* this.inspectedObject
  inspectedProperties,    \* this._inspectedProperties: the inputs, in key order
  div,                    \* the names of the rows in the container's table
  handler,                \* the event handled by the last step
  calls,                  \* what the last handler did to model, callback and DOM
  threw,                  \* an exception escaped a handler
  conv                    \* the conversion pipeline of the round-trip runs

vars == <<declaredProperties, includesOwnProperties, inspectsSelection,
          propertyModified, isReadOnly, selection, data, inspectedObject,
          inspectedProperties, div, handler, calls, threw, conv>>
optionVars == <<declaredProperties, includesOwnProperties, inspectsSelection,
                propertyModified>>

\* --------------------------------------------------------------- predicates
DescOf(name) ==
  IF \E i \in DOMAIN declaredProperties : declaredProperties[i].name = name
  THEN declaredProperties[CHOOSE i \in DOMAIN declaredProperties :
                            declaredProperties[i].name = name]
  ELSE NoDesc

\* `(inspectedObject instanceof go.Part) ? inspectedObject.data : inspectedObject`
DataOf(o, dataAll) == IF o = NullObj THEN NoData ELSE dataAll[o]

\* A read of a property of the data of o: a TypeError when the data is null.
ReadThrows(o, dataAll) == ~DataOf(o, dataAll).present

\* showIfNode, showIfLink, showIfGroup, showIfPresent, applied to
\* (inspectedObject, propertyName).
EvalPredicate(p, o, name, dataAll) ==
  CASE p = "ifNode" -> IsNode(o)
    [] p = "ifLink" -> IsLink(o)
    [] p = "ifGroup" -> IsGroup(o)
    [] OTHER -> DataOf(o, dataAll).val[name] # Undefined

\* canShowProperty with the test of the show flag left out.
canShowPropertyIgnoringFlag(propertyName, propertyDesc, o, dataAll) ==
  IF propertyDesc.show \in Predicates
  THEN EvalPredicate(propertyDesc.show, o, propertyName, dataAll)
  ELSE TRUE

canShowProperty(propertyName, propertyDesc, o, dataAll) ==
  IF propertyDesc.show = "false" THEN FALSE
  ELSE IF propertyDesc.show \in Predicates
  THEN EvalPredicate(propertyDesc.show, o, propertyName, dataAll)
  ELSE TRUE
canEditProperty(propertyName, propertyDesc, o, dataAll) ==
  IF TypeOf(DataOf(o, dataAll).val[propertyName]) = "function" THEN FALSE
  ELSE IF propertyDesc.declared /\ propertyDesc.readOnly = "true" THEN FALSE
  ELSE IF propertyDesc.declared /\ propertyDesc.readOnly \in Predicates
  THEN ~EvalPredicate(propertyDesc.readOnly, o, propertyName, dataAll)
  ELSE TRUE
\* canEditProperty reads data[propertyName] first.
canEditThrows(o, dataAll) == ReadThrows(o, dataAll)

\* ------------------------------------------------------------ the Inspector
\* The Inspector's own state while a handler runs: st.obj is inspectedObject,
\* st.props is _inspectedProperties, st.div the rows of the container,
\* st.calls the handler's trace, st.threw whether it ended in an exception.
Call(op, name, value) == [op |-> op, name |-> name, value |-> value]
Log(st, op, name, value) == [st EXCEPT !.calls = Append(@, Call(op, name, value))]
Throw(st) == [st EXCEPT !.threw = TRUE]

HasRow(props, name) == \E i \in DOMAIN props : props[i].name = name
RowNames(props) == {props[i].name : i \in DOMAIN props}
RECURSIVE NamesOf(_)
NamesOf(props) ==
  IF props = <<>> THEN <<>> ELSE <<Head(props).name>> \o NamesOf(Tail(props))

\* The type an input element reports after setAttribute('type', t): the
\* browser knows 'color'; any other tag of this model leaves a text input.
InputType(desc) ==
  IF desc.declared /\ desc.type = "color" THEN "color" ELSE "text"

\* What a new input shows: the text of the value, its colour in a colour input.
ShownAtBuild(desc, propertyValue) ==
  IF InputType(desc) = "color" THEN convertToColor(propertyValue)
  ELSE convertToString(propertyValue)

\* Whether a new input is disabled, with the model's isReadOnly left unread.
DisabledAtBuildIgnoringModel(canEdit, readOnlyModel) == ~canEdit

\* Whether a new input is disabled: `input.disabled = !this.canEditProperty(..)`
\* and `if (this._diagram.model.isReadOnly) input.disabled = true`.
DisabledAtBuild(canEdit, readOnlyModel) ==
  IF readOnlyModel THEN TRUE ELSE ~canEdit

\* The input element buildPropertyRow creates.
NewInput(propertyName, decProp, propertyValue, o, dataAll, readOnlyModel) ==
  [name |-> propertyName,
   type |-> InputType(decProp),
   value |-> ShownAtBuild(decProp, propertyValue),
   disabled |-> DisabledAtBuild(canEditProperty(propertyName, decProp, o, dataAll),
                                readOnlyModel)]

\* buildPropertyRow: the input of one row, kept in _inspectedProperties (the
\* callers build no row for a name that has one).
buildPropertyRow(st, propertyName, propertyValue, dataAll, readOnlyModel) ==
  Log([st EXCEPT !.props = Append(@, NewInput(propertyName, DescOf(propertyName),
                                               propertyValue, st.obj, dataAll,
                                               readOnlyModel))],
      "buildPropertyRow", propertyName, Undefined)

\* What updateAllHTML puts into an input, given the inspected data.
Refreshed(input, d) ==
  IF ~d.present
  THEN (IF input.type = "color" THEN T_black ELSE T_empty)
  ELSE (IF input.type = "color" THEN convertToColor(d.val[input.name])
        ELSE convertToString(d.val[input.name]))

RECURSIVE RefreshAll(_, _)
RefreshAll(props, d) ==
  IF props = <<>> THEN <<>>
  ELSE <<[Head(props) EXCEPT !.value = Refreshed(Head(props), d)]>>
       \o RefreshAll(Tail(props), d)

\* updateAllHTML: every input shows its property's stored value, or is
\* cleared when there is no data.
updateAllHTML(st, dataAll) ==
  Log([st EXCEPT !.props = RefreshAll(@, DataOf(st.obj, dataAll))],
      "updateAllHTML", "", Undefined)

\* The value inspectObject builds a declared property's row from:
\* the stored value, else the descriptor's default, else '' (`defaultValue || ''`).
DeclaredRowValue(val, d) ==
  LET dv0 == IF val.defaultValue # Undefined THEN val.defaultValue ELSE Str(T_empty)
      defaultValue == IF d.val[val.name] # Undefined THEN d.val[val.name] ELSE dv0
  IN IF Truthy(defaultValue) THEN defaultValue ELSE Str(T_empty)

\* The loop over declaredProperties of inspectObject, from its i-th entry
\* (st is the value of st0: CHOOSE out \in {e : st \in {st0}} : TRUE is e for it).
RECURSIVE BuildDeclared(_, _, _, _)
BuildDeclared(i, st0, dataAll, readOnlyModel) ==
  CHOOSE out \in {
    IF i > Len(declaredProperties) THEN st
    ELSE IF ~canShowProperty(declaredProperties[i].name, declaredProperties[i],
                             st.obj, dataAll)
    THEN BuildDeclared(i + 1, st, dataAll, readOnlyModel)
    ELSE BuildDeclared(i + 1,
           buildPropertyRow(st, declaredProperties[i].name,
                            DeclaredRowValue(declaredProperties[i], DataOf(st.obj, dataAll)),
                            dataAll, readOnlyModel),
           dataAll, readOnlyModel)
    : st \in {st0}} : TRUE

\* The tests of that loop without the one for the library's hash id.
SkipsOwnKeepingHashId(k, st, dataAll) ==
  \/ HasRow(st.props, k)
  \/ DescOf(k).declared /\ ~canShowProperty(k, DescOf(k), st.obj, dataAll)

\* The tests of the loop over the keys of the data that skip the key k.
SkipsOwn(k, st, dataAll) ==
  \/ k = "__gohashid"
  \/ HasRow(st.props, k)
  \/ DescOf(k).declared /\ ~canShowProperty(k, DescOf(k), st.obj, dataAll)

\* The loop over the keys of the data of inspectObject, from its i-th key.
RECURSIVE BuildOwn(_, _, _, _)
BuildOwn(i, st0, dataAll, readOnlyModel) ==
  CHOOSE out \in {
    IF i > Len(DataOf(st.obj, dataAll).keys) THEN st
    ELSE IF SkipsOwn(DataOf(st.obj, dataAll).keys[i], st, dataAll)
    THEN BuildOwn(i + 1, st, dataAll, readOnlyModel)
    ELSE BuildOwn(i + 1,
           buildPropertyRow(st, DataOf(st.obj, dataAll).keys[i],
                            DataOf(st.obj, dataAll).val[DataOf(st.obj, dataAll).keys[i]],
                            dataAll, readOnlyModel),
           dataAll, readOnlyModel)
    : st \in {st0}} : TRUE

\* The object inspectObject settles on for its argument.
Resolve(object, current, sel) ==
  IF object = NoArg
  THEN (IF inspectsSelection THEN sel ELSE current)
  ELSE object

\* The test of inspectObject with the comparison of identities left out.
OnlyRefreshesNullOnly(resolved, current) == resolved = NullObj

\* `inspectedObject === null || this.inspectedObject === inspectedObject`:
\* the rows are only refreshed.
OnlyRefreshes(resolved, current) == resolved = NullObj \/ current = resolved

\* `this.inspectedObject = inspectedObject`
Inspecting(resolved, st) ==
  Log([st EXCEPT !.obj = resolved], "inspectObject", resolved, Undefined)

\* `mainDiv.innerHTML = ''`
Cleared(st) == Log([st EXCEPT !.div = <<>>], "clear", "", Undefined)

\* `mainDiv.appendChild(table)`: the rows built are in the container.
AppendTable(st0) ==
  CHOOSE out \in {
    Log([st EXCEPT !.div = NamesOf(st.props)], "appendTable", "", Undefined)
    : st \in {st0}} : TRUE

\* The loop over the data's own keys, when includesOwnProperties.
OwnProperties(st, dataAll, readOnlyModel) ==
  IF includesOwnProperties THEN BuildOwn(1, st, dataAll, readOnlyModel) ELSE st

\* The rest of inspectObject once the container is emptied and data is found.
BuildTable(st, dataAll, readOnlyModel) ==
  AppendTable(OwnProperties(BuildDeclared(1, [st EXCEPT !.props = <<>>],
                                          dataAll, readOnlyModel),
                            dataAll, readOnlyModel))

\* inspectObject from its first test on, the object it is about being settled.
InspectResolved(resolved, st, dataAll, readOnlyModel) ==
  IF OnlyRefreshes(resolved, st.obj)
  THEN updateAllHTML(Inspecting(resolved, st), dataAll)
  ELSE IF ~DataOf(resolved, dataAll).present
  THEN Cleared(Inspecting(resolved, st))
  ELSE BuildTable(Cleared(Inspecting(resolved, st)), dataAll, readOnlyModel)

\* inspectObject(object): refresh the rows of the object already inspected,
\* or rebuild them for another one.
inspectObject(object, st0, sel, dataAll, readOnlyModel) ==
  CHOOSE out \in {
    InspectResolved(Resolve(object, st.obj, sel), st, dataAll, readOnlyModel)
    : st \in {st0}} : TRUE

\* The type tag the commit converts a row's value by.
CommitType(decProp, oldval) ==
  IF decProp.declared /\ decProp.type # "unset" THEN decProp.type
  ELSE InferType(oldval)

\* The callback never invoked.
NotifiedNever(st, name, v) == st

\* `this.propertyModified(name, value)` when a callback is given.
Notified(st, name, v) ==
  IF propertyModified THEN Log(st, "propertyModified", name, v) ELSE st

\* The end of one pass of the loop of updateAllProperties: the converted
\* value v0 is shown by the input, written to the data and notified.
WriteRow(i, r, v0) ==
  CHOOSE out \in {
    [st |-> Notified(
              Log([Log(r.st, "input.value", r.st.props[i].name, Str(r.st.props[i].value))
                     EXCEPT !.props[i].value = InputValueOf(v)],
                  "setDataProperty", r.st.props[i].name, v),
              r.st.props[i].name, v),
     dataAll |-> [r.dataAll EXCEPT ![r.st.obj] = SetField(@, r.st.props[i].name, v)]]
    : v \in {v0}} : TRUE

\* A pass of that loop that writes the input's text as it is.
CommitRowUnconverted(i, r) == WriteRow(i, r, Str(r.st.props[i].value))

\* One pass of the loop of updateAllProperties over an input the commit
\* does not skip.
CommitRow(i, r) ==
  WriteRow(i, r,
    ConvertForCommit(CommitType(DescOf(r.st.props[i].name),
                                r.dataAll[r.st.obj].val[r.st.props[i].name]),
                     Str(r.st.props[i].value)))

\* The loop over _inspectedProperties of updateAllProperties, from its i-th
\* input; r.st is the Inspector and r.dataAll the model's records so far.
RECURSIVE CommitRows(_, _)
CommitRows(i, r0) ==
  CHOOSE out \in {
    IF i > Len(r.st.props) \/ r.st.threw THEN r
    ELSE IF canEditThrows(r.st.obj, r.dataAll) THEN [r EXCEPT !.st = Throw(@)]
    ELSE IF ~canEditProperty(r.st.props[i].name, DescOf(r.st.props[i].name),
                             r.st.obj, r.dataAll)
    THEN CommitRows(i + 1, r)
    ELSE CommitRows(i + 1, CommitRow(i, r))
    : r \in {r0}} : TRUE

\* `diagram.commitTransaction('set all properties')`, reached unless the loop
\* threw.
Committed(r0) ==
  CHOOSE out \in {
    IF r.st.threw THEN r
    ELSE [r EXCEPT !.st = Log(@, "commitTransaction", "set all properties", Undefined)]
    : r \in {r0}} : TRUE

\* The test of updateAllProperties for missing data, left out.
NothingToUpdateNever(d) == FALSE

\* `if (!data) return`: must not try to update data when there's no data.
NothingToUpdate(d) == ~d.present

\* updateAllProperties: the inputs' values written to the inspected data in
\* one transaction.
updateAllProperties(st, dataAll) ==
  IF NothingToUpdate(DataOf(st.obj, dataAll)) THEN [st |-> st, dataAll |-> dataAll]
  ELSE Committed(CommitRows(1, [st |-> Log(st, "startTransaction", "set all properties",
                                           Undefined),
                                dataAll |-> dataAll]))

\* A listener that does nothing when a transaction finishes.
ModelChangedListenerIdle(st, sel, dataAll, readOnlyModel) == st

\* The model-changed listener of the constructor: a finished transaction
\* re-inspects.
ModelChangedListener(st, sel, dataAll, readOnlyModel) ==
  inspectObject(NoArg, st, sel, dataAll, readOnlyModel)

\* Whether the handler committed a transaction.
HasCommitted(st) == \E i \in DOMAIN st.calls : st.calls[i].op = "commitTransaction"

\* setprops, the listener of an input's blur, input and change events: the
\* commit, and the model-changed listener its committed transaction calls.
setprops(st, sel, dataAll, readOnlyModel) ==
  CHOOSE out \in {
    IF HasCommitted(r.st)
    THEN [r EXCEPT !.st = ModelChangedListener(r.st, sel, r.dataAll, readOnlyModel)]
    ELSE r
    : r \in {updateAllProperties(st, dataAll)}} : TRUE

\* ------------------------------------------------------------------ actions
ConvOff == [phase |-> "off", tag |-> "", orig |-> Undefined, text |-> <<>>,
            back |-> Undefined]

\* The Inspector as a handler finds it, with an empty trace.
Entering == [obj |-> inspectedObject, props |-> inspectedProperties, div |-> div,
             calls |-> <<>>, threw |-> FALSE]

\* The Inspector as a handler leaves it.
Leaving(st, h) ==
  /\ inspectedObject' = st.obj
  /\ inspectedProperties' = st.props
  /\ div' = st.div
  /\ calls' = st.calls
  /\ threw' = (threw \/ st.threw)
  /\ handler' = h

\* new Inspector(divid, diagram, options): nothing is inspected, the
\* container is empty.
Init ==
  /\ \E opt \in OptionChoices :
       /\ declaredProperties = opt[1]
       /\ includesOwnProperties = opt[2]
       /\ inspectsSelection = opt[3]
       /\ propertyModified = opt[4]
  /\ isReadOnly = FALSE
  /\ selection = NullObj
  /\ data = InitialData
  /\ inspectedObject = NullObj
  /\ inspectedProperties = <<>>
  /\ div = <<>>
  /\ handler = "constructor"
  /\ calls = <<>>
  /\ threw = FALSE
  /\ conv = ConvOff

\* The diagram's selection changes to the Part o, or to nothing, and the
\* 'ChangedSelection' listener runs; it is registered only when
\* inspectsSelection, and nothing else reads the selection.
ChangedSelection(o) ==
  /\ conv.phase = "off"
  /\ inspectsSelection
  /\ o # selection
  /\ selection' = o
  /\ \E st \in {inspectObject(NoArg, Entering, o, data, isReadOnly)} :
       Leaving(st, "ChangedSelection")
  /\ UNCHANGED <<optionVars, isReadOnly, data, conv>>

\* The application calls inspectObject: with no argument, or, as documented,
\* with an object or null when the selection is not inspected.
InspectObjectCall(o) ==
  /\ conv.phase = "off"
  /\ o # NoArg => ~inspectsSelection
  /\ \E st \in {inspectObject(o, Entering, selection, data, isReadOnly)} :
       Leaving(st, "inspectObject")
  /\ UNCHANGED <<optionVars, isReadOnly, selection, data, conv>>

\* A transaction of other code finishes, having made the write w (or none),
\* and the model-changed listener runs.
TransactionFinished(w) ==
  /\ conv.phase = "off"
  /\ data' = IF w = <<>> THEN data
             ELSE [data EXCEPT ![w[1]] = SetField(@, w[2], w[3])]
  /\ \E st \in {ModelChangedListener(Entering, selection, data', isReadOnly)} :
       Leaving(st, "TransactionFinished")
  /\ UNCHANGED <<optionVars, isReadOnly, selection, conv>>

\* The inputs of the container the user can work with.
Usable(i) ==
  /\ i \in DOMAIN inspectedProperties
  /\ \E j \in DOMAIN div : div[j] = inspectedProperties[i].name
  /\ ~inspectedProperties[i].disabled

\* The user leaves the i-th input, a text input, after typing text into it
\* (or leaving what it showed): its blur listener runs.
Blur(i, text) ==
  /\ conv.phase = "off"
  /\ Usable(i)
  /\ inspectedProperties[i].type = "text"
  /\ \E r \in {setprops([Entering EXCEPT !.props[i].value = text],
                         selection, data, isReadOnly)} :
       /\ data' = r.dataAll
       /\ Leaving(r.st, "blur")
  /\ UNCHANGED <<optionVars, isReadOnly, selection, conv>>

\* The user picks a colour in the i-th input, a colour input: its input and
\* change listeners run.
PickColour(i, colour) ==
  /\ conv.phase = "off"
  /\ Usable(i)
  /\ inspectedProperties[i].type = "color"
  /\ \E r \in {setprops([Entering EXCEPT !.props[i].value = colour],
                         selection, data, isReadOnly)} :
       /\ data' = r.dataAll
       /\ Leaving(r.st, "input")
  /\ UNCHANGED <<optionVars, isReadOnly, selection, conv>>

\* Other code makes the model read-only: diagram.model.isReadOnly = true.
SetReadOnly ==
  /\ conv.phase = "off"
  /\ ~isReadOnly
  /\ isReadOnly' = TRUE
  /\ handler' = "isReadOnly"
  /\ calls' = <<>>
  /\ UNCHANGED <<optionVars, selection, data, inspectedObject, inspectedProperties,
                 div, threw, conv>>

Next ==
  \/ \E o \in Selectable \cup {NullObj} : ChangedSelection(o)
  \/ \E o \in InspectedByCall \cup {NullObj, NoArg} : InspectObjectCall(o)
  \/ \E w \in ExternalWrites \cup {<<>>} : TransactionFinished(w)
  \/ \E i \in DOMAIN inspectedProperties :
       \E text \in TypedTexts \cup {inspectedProperties[i].value} : Blur(i, text)
  \/ \E i \in DOMAIN inspectedProperties, colour \in PickedColours : PickColour(i, colour)
  \/ SetReadOnly

Spec == Init /\ [][Next]_vars

\* ------------------------------------------- the conversions, round the trip
\* The typed values the round trip is taken from.
Strings == {T_empty, <<"a">>, T_0, T_false, <<"a", " ", "b">>}
Numbers ==
  {IntNum(n) : n \in -MaxNum..MaxNum}
  \cup {Num(m, 1) : m \in {k \in -MaxNum..MaxNum : k % 10 # 0}}
  \cup {NaN}
Booleans == {Bool(TRUE), Bool(FALSE)}
Colours == {Str(c) : c \in DOMAIN CssColors}
ArraysOfNumber ==
  {Arr(a) : a \in UNION {[1..k -> Numbers] : k \in 0..MaxArrayLen}} \cup {Null}
GoNumbers == {IntNum(0), IntNum(MaxNum), Num(-1, 1)}
GoValues(kind) == {Go(kind, a) : a \in [1..GoArity(kind) -> GoNumbers]}

ConvStart(tag, value) ==
  [phase |-> "in", tag |-> tag, orig |-> value, text |-> <<>>, back |-> Undefined]

InitConv ==
  /\ declaredProperties = NoneDeclared
  /\ includesOwnProperties = TRUE
  /\ inspectsSelection = TRUE
  /\ propertyModified = FALSE
  /\ isReadOnly = FALSE
  /\ selection = NullObj
  /\ data = InitialData
  /\ inspectedObject = NullObj
  /\ inspectedProperties = <<>>
  /\ div = <<>>
  /\ handler = "constructor"
  /\ calls = <<>>
  /\ threw = FALSE
  /\ \/ \E v \in Strings : conv = ConvStart("string", Str(v))
     \/ \E v \in Numbers : conv = ConvStart("number", v)
     \/ \E v \in Booleans : conv = ConvStart("boolean", v)
     \/ \E v \in Colours : conv = ConvStart("color", v)
     \/ \E v \in ArraysOfNumber : conv = ConvStart("arrayofnumber", v)
     \/ \E kind \in GoKinds : \E v \in GoValues(kind) : conv = ConvStart(kind, v)

\* The text an input shows for a value: `input.value = this.convertToString(..)`,
\* and `this.convertToColor(..)` in a colour input.
Display ==
  /\ conv.phase = "in"
  /\ conv' = [conv EXCEPT !.phase = "text",
                          !.text = IF conv.tag = "color" THEN convertToColor(conv.orig)
                                   ELSE convertToString(conv.orig)]
  /\ UNCHANGED <<optionVars, isReadOnly, selection, data, inspectedObject,
                 inspectedProperties, div, handler, calls, threw>>

\* The commit's conversion of that text by the type tag.
ParseBack ==
  /\ conv.phase = "text"
  /\ conv' = [conv EXCEPT !.phase = "done",
                          !.back = ConvertForCommit(conv.tag, Str(conv.text))]
  /\ UNCHANGED <<optionVars, isReadOnly, selection, data, inspectedObject,
                 inspectedProperties, div, handler, calls, threw>>

NextConv == Display \/ ParseBack

SpecConv == InitConv /\ [][NextConv]_vars

\* ------------------------------------------------------------------ claims
OpsOf(c) == {c[i].op : i \in DOMAIN c}
Did(op) == op \in OpsOf(calls)
CountOf(c, op) == Cardinality({i \in DOMAIN c : c[i].op = op})
IsWrite(e) == e.op = "setDataProperty"
IsRead(e) == e.op = "input.value"
IsNotice(e) == e.op = "propertyModified"
\* The handler has rebuilt the rows.
Rebuilt == Did("appendTable")
UniqueNames(props) ==
  \A i, j \in DOMAIN props : props[i].name = props[j].name => i = j

ShownDeclared(o, dataAll) ==
  {declaredProperties[i].name : i \in
     {j \in DOMAIN declaredProperties :
        canShowProperty(declaredProperties[j].name, declaredProperties[j], o, dataAll)}}
HiddenDeclared(o, dataAll) ==
  {declaredProperties[i].name : i \in DOMAIN declaredProperties} \ ShownDeclared(o, dataAll)
OwnKeys(o, dataAll) ==
  {DataOf(o, dataAll).keys[i] : i \in DOMAIN DataOf(o, dataAll).keys} \ {"__gohashid"}

\* C1 (amended): in the state a rebuild of inspectObject leaves, the names
\* that have a row are the declared properties passing canShowProperty for
\* the inspected object, united (when includesOwnProperties) with the keys
\* of its data other than '__gohashid' that are not declared properties
\* failing canShowProperty; each name has one row, and the container shows
\* exactly these rows.
C1_RowsOfRebuild ==
  Rebuilt =>
    /\ RowNames(inspectedProperties)
         = ShownDeclared(inspectedObject, data)
           \cup (IF includesOwnProperties
                 THEN OwnKeys(inspectedObject, data) \ HiddenDeclared(inspectedObject, data)
                 ELSE {})
    /\ UniqueNames(inspectedProperties)
    /\ div = NamesOf(inspectedProperties)

C1_Witness ==
  /\ Rebuilt
  /\ includesOwnProperties
  /\ declaredProperties = HidingDeclared
  /\ inspectedObject = "n1"
  /\ "flag" \in OwnKeys("n1", data)
  /\ RowNames(inspectedProperties) = {"count", "key", "cb"}

\* C1 as stated, read for inspected objects that have data: in every
\* reachable state the names that have a row are the declared properties
\* passing canShowProperty united (when includesOwnProperties) with the
\* data's keys other than '__gohashid', one row each.
C1_Original ==
  DataOf(inspectedObject, data).present =>
    /\ RowNames(inspectedProperties)
         = ShownDeclared(inspectedObject, data)
           \cup (IF includesOwnProperties THEN OwnKeys(inspectedObject, data) ELSE {})
    /\ UniqueNames(inspectedProperties)

\* The calls of inspectObject in the step's trace.
InspectCalls == {k \in DOMAIN calls' : calls'[k].op = "inspectObject"}
RowsKept ==
  /\ NamesOf(inspectedProperties') = NamesOf(inspectedProperties)
  /\ div' = div
  /\ OpsOf(calls') \cap {"clear", "buildPropertyRow", "appendTable"} = {}
RowsRebuilt ==
  /\ "clear" \in OpsOf(calls')
  /\ div' = NamesOf(inspectedProperties')
  /\ CountOf(calls', "buildPropertyRow") = Len(inspectedProperties')

C2_Step ==
  \A k \in InspectCalls :
    /\ inspectedObject' = calls'[k].name
    /\ IF calls'[k].name = NullObj \/ calls'[k].name = inspectedObject
       THEN /\ RowsKept
            /\ "updateAllHTML" \in OpsOf(calls')
            /\ \A i \in DOMAIN inspectedProperties' :
                 /\ inspectedProperties'[i].type = inspectedProperties[i].type
                 /\ inspectedProperties'[i].disabled = inspectedProperties[i].disabled
                 /\ inspectedProperties'[i].value
                      = Refreshed(inspectedProperties[i], DataOf(calls'[k].name, data'))
       ELSE IF DataOf(calls'[k].name, data').present
       THEN RowsRebuilt
       ELSE /\ "clear" \in OpsOf(calls')
            /\ div' = <<>>
            /\ inspectedProperties' = inspectedProperties

\* C2 (amended): for every call of inspectObject, the resolved object
\* becomes the inspected object; if it is null or identical to the object
\* inspected before, no row is added or removed and only the rows' values are
\* refreshed (cleared for null); otherwise the container is emptied, and the
\* rows (_inspectedProperties and the table) are rebuilt from scratch when
\* the object has data, while for an object without data the container stays
\* empty and _inspectedProperties is left as it was.
C2_RebuildOrRefresh == [][C2_Step]_vars

C2_Witness ==
  /\ handler = "ChangedSelection"
  /\ inspectedObject = NullObj
  /\ Did("updateAllHTML")
  /\ div # <<>>
  /\ div = NamesOf(inspectedProperties)
  /\ \A i \in DOMAIN inspectedProperties :
       inspectedProperties[i].value \in {T_empty, T_black}

C2_Original_Step ==
  \A k \in InspectCalls :
    IF calls'[k].name # inspectedObject THEN RowsRebuilt ELSE RowsKept

\* C2 as stated: a call of inspectObject whose resolved object differs in
\* identity from the inspected one empties the container and rebuilds the
\* rows from scratch; one whose resolved object is the inspected one adds
\* and removes no row.
C2_Original == [][C2_Original_Step]_vars

\* The claim's visibility rule for a declared property.
HiddenByRule(d, o, dataAll) ==
  \/ d.show = "false"
  \/ d.show \in Predicates /\ ~EvalPredicate(d.show, o, d.name, dataAll)

\* C3: a rebuild generates no row for a declared property whose show is
\* false or whose show predicate returns false for the inspected object and
\* the property's name, also when includesOwnProperties is true and the data
\* has a key of that name; every other declared property gets a row.
C3_HiddenHasNoRow ==
  Rebuilt =>
    \A i \in DOMAIN declaredProperties :
      HasRow(inspectedProperties, declaredProperties[i].name)
        <=> ~HiddenByRule(declaredProperties[i], inspectedObject, data)

C3_Witness ==
  /\ Rebuilt
  /\ includesOwnProperties
  /\ inspectedObject = "n1"
  /\ \E i \in DOMAIN declaredProperties :
       /\ declaredProperties[i].name = "flag"
       /\ declaredProperties[i].show = "false"
  /\ data["n1"].val["flag"] # Undefined
  /\ ~HasRow(inspectedProperties, "flag")
  /\ ~HasRow(inspectedProperties, "fill")
  /\ HasRow(inspectedProperties, "count")

\* A step in which an input's listener runs updateAllProperties on an
\* inspected object that has data.
CommitStep ==
  /\ handler' \in {"blur", "input"}
  /\ DataOf(inspectedObject, data).present
CommitIndex == CHOOSE k \in DOMAIN calls' : calls'[k].op = "commitTransaction"
Editable(input) ==
  canEditProperty(input.name, DescOf(input.name), inspectedObject, data)
\* The value the commit's conversion makes of the text read from the input.
ConvertedRead(name, read) ==
  ConvertForCommit(CommitType(DescOf(name), data[inspectedObject].val[name]), read)

\* One transaction: a start first, one commit, the writes in between, each
\* the converted value of the input read just before it.
OneTransaction ==
  /\ calls'[1] = Call("startTransaction", "set all properties", Undefined)
  /\ CountOf(calls', "startTransaction") = 1
  /\ CountOf(calls', "commitTransaction") = 1
  /\ \A k \in DOMAIN calls' :
       IsWrite(calls'[k]) =>
         /\ 1 < k /\ k < CommitIndex
         /\ IsRead(calls'[k - 1])
         /\ calls'[k - 1].name = calls'[k].name
         /\ calls'[k].value = ConvertedRead(calls'[k].name, calls'[k - 1].value)
         /\ data'[inspectedObject].val[calls'[k].name] = calls'[k].value

C4_Step ==
  IF CommitStep
  THEN /\ OneTransaction
       /\ NamesOf(SelectSeq(calls', IsWrite))
            = NamesOf(SelectSeq(inspectedProperties, Editable))
  ELSE "setDataProperty" \notin OpsOf(calls')

\* C4 (amended): each commit (updateAllProperties with inspected data
\* present) is a single batched transaction: exactly one
\* startTransaction('set all properties') happens first, then for every row
\* that passes canEditProperty, in row order, the type-converted value of the
\* row's input is written to the inspected data through setDataProperty, then
\* exactly one commitTransaction('set all properties') ends it; rows that do
\* not pass canEditProperty are not written, and the Inspector calls
\* setDataProperty in no other step.
C4_OneTransaction == [][C4_Step]_vars

C4_Witness ==
  /\ handler = "blur"
  /\ Did("commitTransaction")
  /\ CountOf(calls, "setDataProperty") = 2
  /\ Len(inspectedProperties) = 3
  /\ \E k \in DOMAIN calls :
       /\ calls[k] = Call("input.value", "flag", Str(T_0))
       /\ calls[k + 1] = Call("setDataProperty", "flag", Bool(FALSE))

C4_Original_Step ==
  CommitStep =>
    /\ OneTransaction
    /\ NamesOf(SelectSeq(calls', IsWrite)) = NamesOf(inspectedProperties)

\* C4 as stated: in each commit, between the one start and the one commit
\* of the transaction, every row's type-converted value is written through
\* setDataProperty.
C4_Original == [][C4_Original_Step]_vars

C5_Step ==
  CommitStep =>
    IF propertyModified
    THEN /\ CountOf(calls', "propertyModified") = CountOf(calls', "setDataProperty")
         /\ \A k \in DOMAIN calls' :
              IsNotice(calls'[k]) =>
                /\ k < CommitIndex
                /\ calls'[k - 1]
                     = Call("setDataProperty", calls'[k].name, calls'[k].value)
    ELSE "propertyModified" \notin OpsOf(calls')

\* C5 (amended): within one commit, when a propertyModified callback is
\* configured, it is invoked exactly once for each row the commit writes,
\* whether or not the written value differs from the stored one, with the
\* name and the value written; each invocation follows directly the
\* setDataProperty of its own row (so before the writes of later rows) and
\* all of them precede commitTransaction; without a callback nothing is
\* invoked.
C5_CallbackPerWrite == [][C5_Step]_vars

C5_Witness ==
  /\ handler = "blur"
  /\ propertyModified
  /\ CountOf(calls, "propertyModified") = 2
  /\ \E k \in DOMAIN calls :
       /\ IsNotice(calls[k])
       /\ data[inspectedObject].val[calls[k].name] = calls[k].value
       /\ k + 2 \in DOMAIN calls
       /\ IsWrite(calls[k + 2])

NoticesOf(name) ==
  Cardinality({k \in DOMAIN calls' : IsNotice(calls'[k]) /\ calls'[k].name = name})

C5_Original_Step ==
  CommitStep /\ propertyModified =>
    /\ \A i \in DOMAIN inspectedProperties :
         NoticesOf(inspectedProperties[i].name)
           = IF data'[inspectedObject].val[inspectedProperties[i].name]
                  # data[inspectedObject].val[inspectedProperties[i].name]
             THEN 1 ELSE 0
    /\ \A k, w \in DOMAIN calls' :
         IsNotice(calls'[k]) /\ IsWrite(calls'[w]) => w < k /\ k < CommitIndex

\* C5 as stated: within one commit the callback is invoked exactly once for
\* each property whose value the commit changed, and not for a property
\* whose value is unchanged, after the rows' values have been written and
\* before the transaction is committed.
C5_Original == [][C5_Original_Step]_vars

\* The claims' editability rule: a property is read-only if its stored
\* value is a function, its readOnly flag is true, its readOnly predicate
\* returns true, or the model is read-only.
ReadOnlyByRule(name) ==
  \/ TypeOf(DataOf(inspectedObject, data).val[name]) = "function"
  \/ DescOf(name).readOnly = "true"
  \/ /\ DescOf(name).readOnly \in Predicates
     /\ EvalPredicate(DescOf(name).readOnly, inspectedObject, name, data)
  \/ isReadOnly

C6_Original_Step ==
  CommitStep =>
    \A i \in DOMAIN inspectedProperties :
      ReadOnlyByRule(inspectedProperties[i].name) =>
        /\ \A k \in DOMAIN calls' :
             IsWrite(calls'[k]) \/ IsNotice(calls'[k])
               => calls'[k].name # inspectedProperties[i].name
        /\ data'[inspectedObject].val[inspectedProperties[i].name]
             = data[inspectedObject].val[inspectedProperties[i].name]

\* C6: a commit never writes a read-only property: for every row whose
\* property is read-only under the editability rule (its stored value is a
\* function, its readOnly flag is true, its readOnly predicate returns true,
\* or the model is read-only), updateAllProperties calls neither
\* setDataProperty nor the propertyModified callback for it, and its stored
\* value is unchanged by the commit.
C6_Original == [][C6_Original_Step]_vars

\* C7: in the state a rebuild leaves, a row's input is disabled if the
\* property's stored value is a function, or its descriptor's readOnly is
\* true, or its readOnly predicate returns true for the inspected object and
\* the property's name, or the model's isReadOnly is true; it is enabled
\* when none of these holds.
C7_DisabledWhenBuilt ==
  Rebuilt =>
    \A i \in DOMAIN inspectedProperties :
      inspectedProperties[i].disabled <=> ReadOnlyByRule(inspectedProperties[i].name)

C7_Witness ==
  /\ Rebuilt
  /\ ~isReadOnly
  /\ inspectedObject = "n1"
  /\ \E i, j, k \in DOMAIN inspectedProperties :
       /\ inspectedProperties[i].name = "cb" /\ inspectedProperties[i].disabled
       /\ inspectedProperties[j].name = "key" /\ inspectedProperties[j].disabled
       /\ inspectedProperties[k].name = "flag" /\ ~inspectedProperties[k].disabled

\* The rows the claim calls boolean: declared as 'boolean', or undeclared
\* with a stored value of runtime type boolean.
BooleanRow(name) ==
  \/ DescOf(name).declared /\ DescOf(name).type = "boolean"
  \/ ~DescOf(name).declared /\ TypeOf(data[inspectedObject].val[name]) = "boolean"

C9_Step ==
  CommitStep =>
    \A k \in DOMAIN calls' :
      IsWrite(calls'[k]) /\ BooleanRow(calls'[k].name) =>
        /\ IsRead(calls'[k - 1])
        /\ calls'[k].value
             = Bool(~(calls'[k - 1].value \in {Bool(FALSE), Str(T_false), Str(T_0)}))
        /\ data'[inspectedObject].val[calls'[k].name] = calls'[k].value

\* C9: at a commit, for a row whose type is boolean (declared as 'boolean',
\* or undeclared with a stored value of runtime type boolean), the value
\* written is false exactly when the input's value is "false", false or "0",
\* and true for every other input value.
C9_BooleanParsing == [][C9_Step]_vars

C9_Witness ==
  /\ handler = "blur"
  /\ ~DescOf("flag").declared
  /\ \E k, m \in DOMAIN calls :
       /\ calls[k] = Call("input.value", "flag", Str(T_0))
       /\ calls[k + 1] = Call("setDataProperty", "flag", Bool(FALSE))
       /\ calls[m] = Call("input.value", "key", Str(T_0))
       /\ calls[m + 1] = Call("setDataProperty", "key", Str(T_0))

ClearedValue(input) == IF input.type = "color" THEN T_black ELSE T_empty

\* C10: when the inspected object has no data (it is null, or a Part or
\* object whose data is missing) no error is raised: a refresh clears every
\* row's displayed value ('' or '#000000' in a colour input), a rebuild
\* renders no row, and a commit returns without starting a transaction,
\* writing a property or invoking the propertyModified callback.
C10_NoData ==
  /\ ~threw
  /\ ~DataOf(inspectedObject, data).present =>
       /\ Did("updateAllHTML") =>
            \A i \in DOMAIN inspectedProperties :
              inspectedProperties[i].value = ClearedValue(inspectedProperties[i])
       /\ Did("clear") =>
            div = <<>> /\ ~Did("buildPropertyRow") /\ ~Did("appendTable")
       /\ handler \in {"blur", "input"} => calls = <<>>
       /\ OpsOf(calls) \cap {"startTransaction", "setDataProperty",
                             "propertyModified", "commitTransaction"} = {}

C10_Witness ==
  /\ handler = "blur"
  /\ inspectedObject = NullObj
  /\ calls = <<>>
  /\ ~threw
  /\ \E i \in DOMAIN inspectedProperties : inspectedProperties[i].value = T_0
  /\ data = InitialData

\* Two values of a type tag are equivalent: the same value, and for colours
\* the same colour of the canvas.
Equivalent(tag, a, b) ==
  IF tag = "color"
  THEN /\ b.t = "string"
       /\ b.v \in DOMAIN CssColors
       /\ CssColors[b.v] = CssColors[a.v]
  ELSE a = b

\* C8: for each supported type tag (string, number, boolean, color,
\* arrayofnumber, point, rect, size, spot, margin) and every value of that
\* type, converting the value to its displayed text (convertToString, or
\* convertToColor for colour inputs) and parsing that text back with the
\* commit's conversion for the tag yields a value equivalent to the original.
C8_RoundTrip ==
  conv.phase = "done" => Equivalent(conv.tag, conv.orig, conv.back)

C8_Witness ==
  /\ conv.phase = "done"
  /\ conv.tag = "arrayofnumber"
  /\ conv.orig = Arr(<<Num(-1, 1), IntNum(2)>>)
  /\ conv.text = <<"-", "0", ".", "1", " ", "2">>
  /\ conv.back = conv.orig

\* A step in which a transaction finishes, another code's or the commit's
\* own, so that the model-changed listener runs.
FinishedStep ==
  \/ handler' = "TransactionFinished"
  \/ handler' \in {"blur", "input"} /\ "commitTransaction" \in OpsOf(calls')
\* The text of a stored value as an input of the given type shows it.
TextOf(type, value) ==
  IF type = "color" THEN convertToColor(value) ELSE convertToString(value)

C11_Step ==
  /\ FinishedStep
  /\ inspectedObject' = inspectedObject
  /\ DataOf(inspectedObject, data').present
  => /\ NamesOf(inspectedProperties') = NamesOf(inspectedProperties)
     /\ div' = div
     /\ \A i \in DOMAIN inspectedProperties' :
          inspectedProperties'[i].value
            = TextOf(inspectedProperties'[i].type,
                     data'[inspectedObject].val[inspectedProperties'[i].name])

\* C11: whenever a model transaction finishes (the Inspector's own commit
\* included) while the inspected object is the same and has data, the rows
\* are refreshed in place: after the model-changed listener has run, every
\* row's displayed value is the text conversion (convertToString, or
\* convertToColor in a colour input) of the stored value of its property,
\* and the set of rows is unchanged.
C11_RefreshInPlace == [][C11_Step]_vars

C11_Witness ==
  /\ handler = "TransactionFinished"
  /\ inspectedObject = "n1"
  /\ Did("updateAllHTML")
  /\ data["n1"].val["note"] = Str(<<"x">>)
  /\ \E i, j \in DOMAIN inspectedProperties :
       /\ inspectedProperties[i].name = "note"
       /\ inspectedProperties[i].value = <<"x">>
       /\ inspectedProperties[j].name = "fill"
       /\ inspectedProperties[j].type = "color"
       /\ inspectedProperties[j].value = T_black
====
